---- MODULE Spec2Model ----
(***************************************************************************)
(* A model of the bmp-no-std decoder (src/bmp-no-std/src/decoder.rs) and   *)
(* of the Image data model (src/bmp-no-std/src/lib.rs).                    *)
(*                                                                         *)
(* Three specifications share the variables below:                        *)
(*   SpecDecode  the decode pipeline, decode_image, one action per stage   *)
(*   SpecImage   Image::new, set_pixel, get_pixel and the ImageIndex       *)
(*               iterator returned by coordinates()                        *)
(*   SpecBits    the BitIndex iterator, one action per call of next()      *)
(* Buffers are sequences of bytes; Byte(buf, i) is the byte at the 0-based *)
(* offset i.  A panic of the Rust code (slice or index out of range, or an *)
(* arithmetic overflow in a build with overflow checks) is the outcome     *)
(* "panic".  overflow_checks is the build's choice between panicking on an *)
(* arithmetic overflow (debug profile) and wrapping (release profile).     *)
(***************************************************************************)
EXTENDS Integers, Sequences, FiniteSets, TLC

VARIABLES
    overflow_checks,  \* the build panics on arithmetic overflow (else wraps)
    \* ---- decode_image
    bmp_data,         \* the input buffer, immutable
    pc,               \* the stage decode_image is about to run
    header,           \* BmpHeader read by read_bmp_header
    dib_header,       \* BmpDibHeader read by read_bmp_dib_header
    color_palette,    \* Option<Vec<Pixel>>: <<>> is None, <<p>> is Some(p)
    data,             \* Vec<Pixel> produced by read_indexes / read_pixels
    image,            \* Option<Image>: the Image decode_image returns
    outcome,          \* "running", "Ok", an error kind, or "panic"
    \* ---- Image
    img,              \* Option<Image>: the Image built by Image::new
    img_outcome,      \* "ok" or "panic" (a set_pixel that panicked)
    shadow,           \* for each (x,y) the value of the last set_pixel there
    in_range,         \* every set_pixel so far had coordinates in range
    coords,           \* Option<ImageIndex>: the iterator of coordinates()
    yielded,          \* the pairs next() has returned so far
    nones,            \* how many times next() has returned None
    \* ---- BitIndex
    bi,               \* Option<BitIndex>
    bi_row,           \* the row bytes, nbits and size bit_index was given
    bi_outcome,       \* "ok" or "panic"
    bi_out,           \* the values next() has returned so far
    bi_nones          \* how many times next() has returned None

decVars == <<bmp_data, pc, header, dib_header, color_palette, data, image, outcome>>
imgVars == <<img, img_outcome, shadow, in_range, coords, yielded, nones>>
bitVars == <<bi, bi_row, bi_outcome, bi_out, bi_nones>>
vars == <<overflow_checks, decVars, imgVars, bitVars>>

None == <<>>
Some(x) == <<x>>
Unwrap(o) == o[1]

(***************************************************************************)
(* Integer widths.  Every u32 field of the inputs drawn is below 2^31 (its *)
(* top byte is below 128), except width and height, which the code reads   *)
(* as i32 and which i32_from_slice decodes as two's complement.  A usize   *)
(* that wrapped below zero is kept as the negative integer congruent to it *)
(* modulo the width of usize: the code uses such a value only as a shift   *)
(* amount, which a wrapping build reduces modulo 8.                        *)
(***************************************************************************)
U8 == 2 ^ 8
BITS == 8

\* i32::abs followed by `as u32` (i32::MIN is outside the inputs drawn)
AbsU32(x) == IF x < 0 THEN 0 - x ELSE x

(***************************************************************************)
(* Byte-field reader.                                                      *)
(***************************************************************************)
Byte(buf, i) == buf[i + 1]

\* &buf[lo..hi] is a valid slice
SliceOk(buf, lo, hi) == lo <= hi /\ hi <= Len(buf)

\* &buf[lo..hi]
Slice(buf, lo, hi) == SubSeq(buf, lo + 1, hi)

\* u32::from_ne_bytes on a little-endian target
u32_from_slice(buf, off) ==
    Byte(buf, off) + 256 * Byte(buf, off + 1) + 65536 * Byte(buf, off + 2)
        + 16777216 * Byte(buf, off + 3)

u16_from_slice(buf, off) == Byte(buf, off) + 256 * Byte(buf, off + 1)

\* u32_from_slice(..) as i32
i32_from_slice(buf, off) ==
    Byte(buf, off) + 256 * Byte(buf, off + 1) + 65536 * Byte(buf, off + 2)
        + 16777216 * (IF Byte(buf, off + 3) >= 128 THEN Byte(buf, off + 3) - 256
                      ELSE Byte(buf, off + 3))

px(r, g, b) == [r |-> r % U8, g |-> g % U8, b |-> b % U8]

(***************************************************************************)
(* BmpVersion and CompressionType.                                         *)
(***************************************************************************)
BmpVersion_from_dib_header(dh) ==
    IF dh.header_size = 12 THEN Some("Two")
    ELSE IF dh.header_size = 40 /\ dh.compress_type = 3 THEN Some("ThreeNT")
    ELSE IF dh.header_size = 40 THEN Some("Three")
    ELSE IF dh.header_size = 108 THEN Some("Four")
    ELSE IF dh.header_size = 124 THEN Some("Five")
    ELSE None

CompressionType_from_u32(val) ==
    IF val = 1 THEN "Rle8bit"
    ELSE IF val = 2 THEN "Rle4bit"
    ELSE IF val = 3 THEN "BitfieldsEncoding"
    ELSE "Uncompressed"

(***************************************************************************)
(* The stages of decode_image.  A stage returns [res, v]: res is "Ok", an  *)
(* error kind or "panic", and v is the value of an Ok.                     *)
(***************************************************************************)
Ok(v) == [res |-> "Ok", v |-> v]
Fail(kind) == [res |-> kind, v |-> <<>>]
Panic == [res |-> "panic", v |-> <<>>]

\* read_bmp_id comparing the first byte only
ReadBmpIdFirstByte(buf) ==
    IF ~SliceOk(buf, 0, 2) THEN Panic
    ELSE IF Byte(buf, 0) = 66 THEN Ok(<<>>)
    ELSE Fail("WrongMagicNumbers")

read_bmp_id(buf) ==
    IF ~SliceOk(buf, 0, 2) THEN Panic
    ELSE IF <<Byte(buf, 0), Byte(buf, 1)>> = <<66, 77>> THEN Ok(<<>>)
    ELSE Fail("WrongMagicNumbers")

read_bmp_header(buf) ==
    IF ~(SliceOk(buf, 2, 6) /\ SliceOk(buf, 6, 8) /\ SliceOk(buf, 8, 10)
            /\ SliceOk(buf, 10, 14))
    THEN Panic
    ELSE Ok([file_size |-> u32_from_slice(buf, 2),
             creator1 |-> u16_from_slice(buf, 6),
             creator2 |-> u16_from_slice(buf, 8),
             pixel_offset |-> u32_from_slice(buf, 10)])

\* the struct literal of read_bmp_dib_header: eleven fields at fixed offsets
DibFieldsOk(buf) ==
    /\ SliceOk(buf, 14, 18) /\ SliceOk(buf, 18, 22) /\ SliceOk(buf, 22, 26)
    /\ SliceOk(buf, 26, 28) /\ SliceOk(buf, 28, 30) /\ SliceOk(buf, 30, 34)
    /\ SliceOk(buf, 34, 38) /\ SliceOk(buf, 38, 42) /\ SliceOk(buf, 42, 46)
    /\ SliceOk(buf, 46, 50) /\ SliceOk(buf, 50, 54)

DibFields(buf) ==
    [header_size |-> u32_from_slice(buf, 14),
     width |-> i32_from_slice(buf, 18),
     height |-> i32_from_slice(buf, 22),
     num_planes |-> u16_from_slice(buf, 26),
     bits_per_pixel |-> u16_from_slice(buf, 28),
     compress_type |-> u32_from_slice(buf, 30),
     data_size |-> u32_from_slice(buf, 34),
     hres |-> i32_from_slice(buf, 38),
     vres |-> i32_from_slice(buf, 42),
     num_colors |-> u32_from_slice(buf, 46),
     num_imp_colors |-> u32_from_slice(buf, 50)]

\* validate_dib_header with the bit depth matched before the version
BadBppFirst(dh) ==
    IF dh.bits_per_pixel \notin {1, 4, 8, 24} THEN "UnsupportedBitsPerPixel"
    ELSE IF BmpVersion_from_dib_header(dh) = None THEN "UnsupportedHeader"
    ELSE IF Unwrap(BmpVersion_from_dib_header(dh)) \notin {"Three", "Four", "Five"}
    THEN "UnsupportedBmpVersion"
    ELSE IF CompressionType_from_u32(dh.compress_type) # "Uncompressed"
    THEN "UnsupportedCompressionType"
    ELSE "Ok"

\* the three matches of read_bmp_dib_header, in the order of the code
validate_dib_header(dh) ==
    IF BmpVersion_from_dib_header(dh) = None THEN "UnsupportedHeader"
    ELSE IF Unwrap(BmpVersion_from_dib_header(dh)) \notin {"Three", "Four", "Five"}
    THEN "UnsupportedBmpVersion"
    ELSE IF dh.bits_per_pixel \notin {1, 4, 8, 24} THEN "UnsupportedBitsPerPixel"
    ELSE IF CompressionType_from_u32(dh.compress_type) # "Uncompressed"
    THEN "UnsupportedCompressionType"
    ELSE "Ok"

read_bmp_dib_header(buf) ==
    IF ~DibFieldsOk(buf) THEN Panic
    ELSE IF validate_dib_header(DibFields(buf)) # "Ok"
    THEN Fail(validate_dib_header(DibFields(buf)))
    ELSE Ok(DibFields(buf))

BMP_HEADER_SIZE == 14

\* the first match of read_color_palette: Option<usize>
num_entries(dh) ==
    IF dh.num_colors # 0 THEN Some(dh.num_colors)
    ELSE IF dh.bits_per_pixel \in {1, 4, 8} THEN Some(2 ^ dh.bits_per_pixel)
    ELSE None

read_color_palette(buf, dh) ==
    IF num_entries(dh) = None THEN Ok(None)
    ELSE IF BmpVersion_from_dib_header(dh) = Some("Two")
    THEN Fail("UnsupportedBmpVersion")
    ELSE LET n == Unwrap(num_entries(dh))
             offset == BMP_HEADER_SIZE + dh.header_size
         IN  IF \E i \in 0 .. n - 1 :
                    ~SliceOk(buf, offset + i * 4, offset + (i + 1) * 4)
             THEN Panic
             ELSE Ok(Some([k \in 1 .. n |->
                        px(Byte(buf, offset + (k - 1) * 4 + 2),
                           Byte(buf, offset + (k - 1) * 4 + 1),
                           Byte(buf, offset + (k - 1) * 4))]))

(***************************************************************************)
(* BitIndex.  Bitwise operations on u8.                                    *)
(***************************************************************************)
Bit(v, k) == (v \div (2 ^ k)) % 2

And8(a, b) ==
    Bit(a, 0) * Bit(b, 0) + 2 * Bit(a, 1) * Bit(b, 1) + 4 * Bit(a, 2) * Bit(b, 2)
        + 8 * Bit(a, 3) * Bit(b, 3) + 16 * Bit(a, 4) * Bit(b, 4)
        + 32 * Bit(a, 5) * Bit(b, 5) + 64 * Bit(a, 6) * Bit(b, 6)
        + 128 * Bit(a, 7) * Bit(b, 7)

\* a shift of a u8 by s overflows when s is not below 8; a wrapping build
\* shifts by s modulo 8
ShiftOverflows(s) == s < 0 \/ s >= BITS
Shl8(v, s) == (v * (2 ^ (s % BITS))) % U8
Shr8(v, s) == v \div (2 ^ (s % BITS))

\* bit_index: [res, v], a panic when BITS - nbits or the shift overflows in
\* a build with overflow checks
bit_index(bytes, nbits, size, checks) ==
    LET bits_left == BITS - nbits
    IN  IF checks /\ (bits_left < 0 \/ ShiftOverflows(bits_left)) THEN Panic
        ELSE Ok([size |-> size,
                 nbits |-> nbits,
                 bits_left |-> bits_left,
                 mask |-> Shr8(U8 - 1, bits_left),
                 bytes |-> bytes,
                 index |-> 0])

\* BitIndex::next with the fields counted from the least significant bit
NextLsbFirst(it, checks) ==
    LET n == it.index \div BITS
        offset == it.index % BITS
        stepped == [it EXCEPT !.index = it.index + it.nbits]
    IN  IF it.size = 0 THEN Ok([it |-> stepped, item |-> None])
        ELSE IF n >= Len(it.bytes)
        THEN Ok([it |-> [stepped EXCEPT !.size = it.size - 1], item |-> None])
        ELSE Ok([it |-> [stepped EXCEPT !.size = it.size - 1],
                 item |-> Some(Shr8(And8(Byte(it.bytes, n), Shl8(it.mask, offset)),
                                    offset))])

\* BitIndex::next: [res, v] with v = [it, item], the iterator after the call
\* and the Option<usize> returned
BitIndex_next(it, checks) ==
    LET n == it.index \div BITS
        offset == it.bits_left - (it.index % BITS)
        stepped == [it EXCEPT !.index = it.index + it.nbits]
    IN  IF checks /\ offset < 0 THEN Panic
        ELSE IF it.size = 0 THEN Ok([it |-> stepped, item |-> None])
        ELSE IF n >= Len(it.bytes)
        THEN Ok([it |-> [stepped EXCEPT !.size = it.size - 1], item |-> None])
        ELSE IF checks /\ ShiftOverflows(offset) THEN Panic
        ELSE Ok([it |-> [stepped EXCEPT !.size = it.size - 1],
                 item |-> Some(Shr8(And8(Byte(it.bytes, n), Shl8(it.mask, offset)),
                                    offset))])

\* `for i in bit_index(..)`: the items up to the first None, or a panic
RECURSIVE Drain(_, _, _)
Drain(it, acc, checks) ==
    LET r == BitIndex_next(it, checks)
    IN  IF r.res # "Ok" THEN Panic
        ELSE IF r.v.item = None THEN Ok(acc)
        ELSE Drain(r.v.it, Append(acc, Unwrap(r.v.item)), checks)

(***************************************************************************)
(* The pixel-data readers.                                                 *)
(***************************************************************************)
\* (width as f64 / (8.0 / bpp as f64)) as usize.  For bpp in {1,4,8} the
\* divisor 8/bpp is exact; for bpp = 24 the divisor is fl(1/3) = (1/3)(1-2^-54)
\* and the quotient rounds to 3*width: in each case floor(width*bpp/8).
bytes_per_row(width, bpp) == (width * bpp) \div 8

row_padding(bpr) == IF bpr % 4 = 0 THEN 0 ELSE 4 - (bpr % 4)

\* one iteration of the loop of read_indexes: the pixels of row y
read_row(buf, palette, width, bpp, offset, y, checks) ==
    LET bpr == bytes_per_row(width, bpp)
        start == offset + (bpr + row_padding(bpr)) * y
    IN  IF ~SliceOk(buf, start, start + bpr) THEN Panic
        ELSE LET bix == bit_index(Slice(buf, start, start + bpr), bpp, width, checks)
             IN  IF bix.res # "Ok" THEN Panic
                 ELSE LET idx == Drain(bix.v, <<>>, checks)
                      IN  IF idx.res # "Ok" THEN Panic
                          ELSE IF \E k \in 1 .. Len(idx.v) : idx.v[k] >= Len(palette)
                          THEN Panic
                          ELSE Ok([k \in 1 .. Len(idx.v) |-> palette[idx.v[k] + 1]])

RECURSIVE read_rows(_, _, _, _, _, _, _, _, _)
read_rows(buf, palette, width, height, bpp, offset, y, acc, checks) ==
    IF y >= height THEN Ok(acc)
    ELSE LET row == read_row(buf, palette, width, bpp, offset, y, checks)
         IN  IF row.res # "Ok" THEN Panic
             ELSE read_rows(buf, palette, width, height, bpp, offset, y + 1,
                            acc \o row.v, checks)

read_indexes(buf, palette, width, height, bpp, offset, checks) ==
    read_rows(buf, palette, width, height, bpp, offset, 0, <<>>, checks)

\* read_pixels with the three bytes taken as (red, green, blue)
ReadPixelsRgb(buf, width, height, offset) ==
    IF \E lr \in 0 .. width * height - 1 :
            ~SliceOk(buf, offset + lr * 4, offset + (lr + 1) * 4 - 1)
    THEN Panic
    ELSE Ok([k \in 1 .. width * height |->
                px(Byte(buf, offset + (k - 1) * 4),
                   Byte(buf, offset + (k - 1) * 4 + 1),
                   Byte(buf, offset + (k - 1) * 4 + 2))])

read_pixels(buf, width, height, offset) ==
    IF \E lr \in 0 .. width * height - 1 :
            ~SliceOk(buf, offset + lr * 4, offset + (lr + 1) * 4 - 1)
    THEN Panic
    ELSE Ok([k \in 1 .. width * height |->
                px(Byte(buf, offset + (k - 1) * 4 + 2),
                   Byte(buf, offset + (k - 1) * 4 + 1),
                   Byte(buf, offset + (k - 1) * 4))])

\* the offsets of the bytes read_pixels copies out of the buffer
read_pixels_touched(width, height, offset) ==
    UNION {offset + lr * 4 .. offset + (lr + 1) * 4 - 2 : lr \in 0 .. width * height - 1}

(***************************************************************************)
(* Image, and the headers Image::new and decode_image synthesize.          *)
(***************************************************************************)
\* file_size!(bpp, width, height): (header_size, height * row_size)
file_size(bpp, width, height) ==
    <<2 + 12 + 40, height * (((bpp * width + 31) \div 32) * 4)>>

BmpHeader_new(header_size, data_size) ==
    [file_size |-> header_size + data_size,
     creator1 |-> 0,
     creator2 |-> 0,
     pixel_offset |-> header_size]

BmpDibHeader_new(width, height) ==
    [header_size |-> 40,
     width |-> width,
     height |-> height,
     num_planes |-> 1,
     bits_per_pixel |-> 24,
     compress_type |-> 0,
     data_size |-> file_size(24, width, height)[2],
     hres |-> 1000,
     vres |-> 1000,
     num_colors |-> 0,
     num_imp_colors |-> 0]

BLACK == px(0, 0, 0)

Image_new(width, height) ==
    [header |-> BmpHeader_new(file_size(24, width, height)[1],
                              file_size(24, width, height)[2]),
     dib_header |-> BmpDibHeader_new(width, height),
     color_palette |-> None,
     width |-> width,
     height |-> height,
     padding |-> width % 4,
     data |-> [k \in 1 .. width * height |-> BLACK]]

\* set_pixel without the flip of the row order
SetPixelNoFlip(im, x, y, val, checks) ==
    LET i == y * im.width + x
    IN  IF i < 0 \/ i >= Len(im.data) THEN Panic
        ELSE Ok([im EXCEPT !.data[i + 1] = val])

\* set_pixel: [res, v], v the Image after the call.  height - y - 1 is u32
\* arithmetic: it overflows when y >= height, which panics in a build with
\* overflow checks and otherwise wraps; a wrapped index that is not below
\* zero as an integer is that integer, and one below zero is far out of range.
set_pixel(im, x, y, val, checks) ==
    LET i == (im.height - y - 1) * im.width + x
    IN  IF checks /\ y >= im.height THEN Panic
        ELSE IF i < 0 \/ i >= Len(im.data) THEN Panic
        ELSE Ok([im EXCEPT !.data[i + 1] = val])

\* get_pixel: [res, v], v the Pixel returned
get_pixel(im, x, y, checks) ==
    LET i == (im.height - y - 1) * im.width + x
    IN  IF checks /\ y >= im.height THEN Panic
        ELSE IF i < 0 \/ i >= Len(im.data) THEN Panic
        ELSE Ok(im.data[i + 1])

ImageIndex_new(width, height) == [width |-> width, height |-> height, x |-> 0, y |-> 0]

\* ImageIndex::next stepping y before x
NextColumnMajor(it) ==
    IF it.x < it.width /\ it.y < it.height
    THEN [it |-> IF it.y + 1 = it.height
                 THEN [it EXCEPT !.y = 0, !.x = it.x + 1]
                 ELSE [it EXCEPT !.y = it.y + 1],
          item |-> Some(<<it.x, it.y>>)]
    ELSE [it |-> it, item |-> None]

\* ImageIndex::next: the iterator after the call and the Option returned
ImageIndex_next(it) ==
    IF it.x < it.width /\ it.y < it.height
    THEN [it |-> IF it.x + 1 = it.width
                 THEN [it EXCEPT !.x = 0, !.y = it.y + 1]
                 ELSE [it EXCEPT !.x = it.x + 1],
          item |-> Some(<<it.x, it.y>>)]
    ELSE [it |-> it, item |-> None]

(***************************************************************************)
(* The input buffers decode_image is run on.  A buffer is laid out from a  *)
(* parameter record p: the 14-byte container header, the format header,    *)
(* a palette of PalEntries(p) entries, and a pixel area filled from one of *)
(* the byte patterns; p.cut bytes are then cut off its end and at most     *)
(* p.keep bytes are kept.                                                  *)
(***************************************************************************)
MaxWidth == 8
MaxHeight == 2
MaxDirectWidth == 2

Min(a, b) == IF a < b THEN a ELSE b

LE16(n) == <<n % 256, (n \div 256) % 256>>
LE32(n) ==
    <<n % 256, (n \div 256) % 256, (n \div 65536) % 256, (n \div 16777216) % 256>>

Zeros(n) == [k \in 1 .. n |-> 0]

Patterns ==
    << <<128, 0, 0, 0, 64, 0, 0, 0>>,
       <<1, 0, 3, 2, 0, 1, 2, 3, 1, 1, 0, 2>>,
       <<180, 27, 255, 1, 7, 9, 200>> >>

PalEntry(i) ==
    IF i = 0 THEN <<0, 0, 0, 0>>
    ELSE IF i = 1 THEN <<255, 255, 255, 0>>
    ELSE <<(16 * i + 1) % 256, (16 * i + 2) % 256, (16 * i + 3) % 256, 238>>

PalEntries(p) ==
    IF p.nc # 0 THEN p.nc
    ELSE IF p.bpp = 1 THEN 2
    ELSE IF p.bpp \in {4, 8} THEN 16
    ELSE 0

PalBytes(n) == [k \in 1 .. 4 * n |-> PalEntry((k - 1) \div 4)[((k - 1) % 4) + 1]]

\* the bytes of one stored row: the row's bits rounded up to whole bytes
RowBytes(w, bpp) == (w * bpp + 7) \div 8

\* the stride of the stored rows: RowBytes rounded up to a multiple of 4
Stride(w, bpp) == ((RowBytes(w, bpp) + 3) \div 4) * 4

PixelAreaLen(p) ==
    IF p.bpp = 24 THEN 4 * p.w * AbsU32(p.h)
    ELSE AbsU32(p.h) * Stride(p.w, p.bpp)

PixelArea(p) ==
    [k \in 1 .. PixelAreaLen(p) |->
        Patterns[p.pat][((k - 1) % Len(Patterns[p.pat])) + 1]]

HeaderGap(p) == IF p.hs > 40 THEN p.hs - 40 ELSE 0

PixelOffset(p) == 54 + HeaderGap(p) + 4 * PalEntries(p)

FullBuffer(p) ==
    p.magic \o LE32(PixelOffset(p) + PixelAreaLen(p)) \o LE16(0) \o LE16(0)
        \o LE32(PixelOffset(p))
        \o LE32(p.hs) \o LE32(p.w % 16777216) \o LE32(p.h % 16777216)
        \o LE16(1) \o LE16(p.bpp) \o LE32(p.comp) \o LE32(PixelAreaLen(p))
        \o LE32(1000) \o LE32(1000) \o LE32(p.nc) \o LE32(0)
        \o Zeros(HeaderGap(p)) \o PalBytes(PalEntries(p)) \o PixelArea(p)

\* a negative width or height is stored in two's complement
SignFix(buf, off, n) == IF n < 0 THEN [buf EXCEPT ![off + 4] = 255] ELSE buf

Buffer(p) ==
    LET full == SignFix(SignFix(FullBuffer(p), 18, p.w), 22, p.h)
    IN  SubSeq(full, 1, Min(p.keep, Len(full) - Min(p.cut, Len(full))))

NoLimit == 10 ^ 5

Params(magics, hss, ws, hs_, bpps, comps, ncs, pats, cuts, keeps) ==
    [magic : magics, hs : hss, w : ws, h : hs_, bpp : bpps, comp : comps,
     nc : ncs, pat : pats, cut : cuts, keep : keeps]

BM == <<66, 77>>

\* wrong magic and short buffers
InputsMagic ==
    Params({BM, <<66, 65>>, <<88, 77>>, <<0, 0>>}, {40, 16}, {1}, {1}, {24, 16},
           {0, 1}, {0}, {3}, {0}, {0, 1, 2, 6, 13, 14, 30, 53, 54, NoLimit})

\* every combination of header size, bit depth, compression and color count
InputsHeader ==
    Params({BM}, {12, 16, 40, 108, 124}, {1}, {1}, {1, 4, 8, 16, 24}, 0 .. 4,
           {0, 2}, {1}, {0}, {NoLimit})

\* indexed images
InputsIndexed ==
    Params({BM}, {40}, 0 .. MaxWidth, -1 .. MaxHeight, {1, 4, 8}, {0},
           {0, 2, 4}, {1, 2, 3}, {0, 1}, {NoLimit})

\* direct-color images, with and without a declared color count
InputsDirect ==
    Params({BM}, {40, 108}, 0 .. MaxDirectWidth, -1 .. MaxHeight, {24}, {0},
           {0, 2}, {1, 2, 3}, {0, 1, 2}, {NoLimit})

Inputs == InputsMagic \cup InputsHeader \cup InputsIndexed \cup InputsDirect

(***************************************************************************)
(* SpecDecode: decode_image, one action per stage of the pipeline.         *)
(***************************************************************************)
ImageIdle ==
    /\ img = None /\ img_outcome = "ok" /\ shadow = <<>> /\ in_range = TRUE
    /\ coords = None /\ yielded = <<>> /\ nones = 0

BitsIdle ==
    bi = None /\ bi_row = None /\ bi_outcome = "ok" /\ bi_out = <<>> /\ bi_nones = 0

DecodeIdle ==
    /\ bmp_data = <<>> /\ pc = "idle" /\ header = None /\ dib_header = None
    /\ color_palette = None /\ data = <<>> /\ image = None /\ outcome = "running"

InitDecode ==
    /\ overflow_checks \in BOOLEAN
    /\ \E p \in Inputs : bmp_data = Buffer(p)
    /\ pc = "read_bmp_id"
    /\ header = None
    /\ dib_header = None
    /\ color_palette = None
    /\ data = <<>>
    /\ image = None
    /\ outcome = "running"
    /\ ImageIdle
    /\ BitsIdle

\* `?` on an Err, or a panic: decode_image ends without an Image
Abort(kind) == pc' = "done" /\ outcome' = kind

ReadBmpId ==
    /\ pc = "read_bmp_id"
    /\ LET r == read_bmp_id(bmp_data)
       IN  IF r.res = "Ok" THEN pc' = "read_bmp_header" /\ outcome' = outcome
           ELSE Abort(r.res)
    /\ UNCHANGED <<overflow_checks, bmp_data, header, dib_header, color_palette,
                   data, image, imgVars, bitVars>>

ReadBmpHeader ==
    /\ pc = "read_bmp_header"
    /\ LET r == read_bmp_header(bmp_data)
       IN  IF r.res = "Ok"
           THEN pc' = "read_bmp_dib_header" /\ outcome' = outcome
                /\ header' = Some(r.v)
           ELSE Abort(r.res) /\ header' = header
    /\ UNCHANGED <<overflow_checks, bmp_data, dib_header, color_palette, data,
                   image, imgVars, bitVars>>

ReadBmpDibHeader ==
    /\ pc = "read_bmp_dib_header"
    /\ LET r == read_bmp_dib_header(bmp_data)
       IN  IF r.res = "Ok"
           THEN pc' = "read_color_palette" /\ outcome' = outcome
                /\ dib_header' = Some(r.v)
           ELSE Abort(r.res) /\ dib_header' = dib_header
    /\ UNCHANGED <<overflow_checks, bmp_data, header, color_palette, data, image,
                   imgVars, bitVars>>

ReadColorPalette ==
    /\ pc = "read_color_palette"
    /\ LET r == read_color_palette(bmp_data, Unwrap(dib_header))
       IN  IF r.res = "Ok"
           THEN pc' = "read_data" /\ outcome' = outcome /\ color_palette' = r.v
           ELSE Abort(r.res) /\ color_palette' = color_palette
    /\ UNCHANGED <<overflow_checks, bmp_data, header, dib_header, data, image,
                   imgVars, bitVars>>

\* let width / let height of decode_image
DecWidth == AbsU32(Unwrap(dib_header).width)
DecHeight == AbsU32(Unwrap(dib_header).height)

ReadIndexes ==
    /\ pc = "read_data"
    /\ color_palette # None
    /\ LET r == read_indexes(bmp_data, Unwrap(color_palette), DecWidth, DecHeight,
                             Unwrap(dib_header).bits_per_pixel,
                             Unwrap(header).pixel_offset, overflow_checks)
       IN  IF r.res = "Ok"
           THEN pc' = "build" /\ outcome' = outcome /\ data' = r.v
           ELSE Abort(r.res) /\ data' = data
    /\ UNCHANGED <<overflow_checks, bmp_data, header, dib_header, color_palette,
                   image, imgVars, bitVars>>

ReadPixels ==
    /\ pc = "read_data"
    /\ color_palette = None
    /\ LET r == read_pixels(bmp_data, DecWidth, DecHeight,
                            Unwrap(header).pixel_offset)
       IN  IF r.res = "Ok"
           THEN pc' = "build" /\ outcome' = outcome /\ data' = r.v
           ELSE Abort(r.res) /\ data' = data
    /\ UNCHANGED <<overflow_checks, bmp_data, header, dib_header, color_palette,
                   image, imgVars, bitVars>>

\* the Image decode_image assembles and returns
BuildImage ==
    /\ pc = "build"
    /\ image' = Some([header |-> Unwrap(header),
                      dib_header |-> BmpDibHeader_new(DecWidth, DecHeight),
                      color_palette |-> color_palette,
                      width |-> DecWidth,
                      height |-> DecHeight,
                      padding |-> DecWidth % 4,
                      data |-> data])
    /\ pc' = "done"
    /\ outcome' = "Ok"
    /\ UNCHANGED <<overflow_checks, bmp_data, header, dib_header, color_palette,
                   data, imgVars, bitVars>>

NextDecode ==
    \/ ReadBmpId
    \/ ReadBmpHeader
    \/ ReadBmpDibHeader
    \/ ReadColorPalette
    \/ ReadIndexes
    \/ ReadPixels
    \/ BuildImage

SpecDecode == InitDecode /\ [][NextDecode]_vars

(***************************************************************************)
(* SpecImage: Image::new, set_pixel and the iterator of coordinates().     *)
(* set_pixel is also called one past the last column and the last row.     *)
(***************************************************************************)
MaxImgWidth == 2
MaxImgHeight == 2
MaxNones == 2

PixelValues == {BLACK, px(1, 2, 3)}

InitImage ==
    /\ overflow_checks \in BOOLEAN
    /\ DecodeIdle
    /\ ImageIdle
    /\ BitsIdle

New(width, height) ==
    /\ img = None
    /\ img' = Some(Image_new(width, height))
    /\ shadow' = [c \in (0 .. width - 1) \X (0 .. height - 1) |-> BLACK]
    /\ UNCHANGED <<overflow_checks, img_outcome, in_range, coords, yielded, nones,
                   decVars, bitVars>>

SetPixel(x, y, val) ==
    /\ img # None
    /\ img_outcome = "ok"
    /\ LET im == Unwrap(img)
           r == set_pixel(im, x, y, val, overflow_checks)
           ok == x < im.width /\ y < im.height
       IN  /\ IF r.res = "Ok" THEN img' = Some(r.v) /\ img_outcome' = img_outcome
              ELSE img' = img /\ img_outcome' = "panic"
           /\ in_range' = (in_range /\ ok)
           /\ shadow' = IF ok THEN [shadow EXCEPT ![<<x, y>>] = val] ELSE shadow
    /\ UNCHANGED <<overflow_checks, coords, yielded, nones, decVars, bitVars>>

Coordinates ==
    /\ img # None
    /\ coords' = Some(ImageIndex_new(Unwrap(img).width, Unwrap(img).height))
    /\ yielded' = <<>>
    /\ nones' = 0
    /\ UNCHANGED <<overflow_checks, img, img_outcome, shadow, in_range, decVars,
                   bitVars>>

CoordsNext ==
    /\ coords # None
    /\ nones < MaxNones
    /\ LET r == ImageIndex_next(Unwrap(coords))
       IN  /\ coords' = Some(r.it)
           /\ IF r.item = None THEN nones' = nones + 1 /\ yielded' = yielded
              ELSE nones' = nones /\ yielded' = Append(yielded, Unwrap(r.item))
    /\ UNCHANGED <<overflow_checks, img, img_outcome, shadow, in_range, decVars,
                   bitVars>>

NextImage ==
    \/ \E w \in 0 .. MaxImgWidth, h \in 0 .. MaxImgHeight : New(w, h)
    \/ \E x \in 0 .. MaxImgWidth, y \in 0 .. MaxImgHeight, val \in PixelValues :
            /\ img # None
            /\ x <= Unwrap(img).width
            /\ y <= Unwrap(img).height
            /\ SetPixel(x, y, val)
    \/ Coordinates
    \/ CoordsNext

SpecImage == InitImage /\ [][NextImage]_vars

(***************************************************************************)
(* SpecBits: a BitIndex built by bit_index, then one action per next().    *)
(***************************************************************************)
MaxRowLen == 2
MaxSize == 9
MaxBitNones == 2

ByteValues == {128, 180, 77}
NBits == {1, 4, 8, 24}

Rows == UNION {[1 .. n -> ByteValues] : n \in 0 .. MaxRowLen}

InitBits ==
    /\ overflow_checks \in BOOLEAN
    /\ DecodeIdle
    /\ ImageIdle
    /\ BitsIdle

BitIndexCreate(bytes, nbits, size) ==
    /\ bi = None
    /\ bi_outcome = "ok"
    /\ bi_row' = Some([bytes |-> bytes, nbits |-> nbits, size |-> size])
    /\ LET r == bit_index(bytes, nbits, size, overflow_checks)
       IN  IF r.res = "Ok" THEN bi' = Some(r.v) /\ bi_outcome' = bi_outcome
           ELSE bi' = bi /\ bi_outcome' = "panic"
    /\ UNCHANGED <<overflow_checks, bi_out, bi_nones, decVars, imgVars>>

BitIndexNext ==
    /\ bi # None
    /\ bi_outcome = "ok"
    /\ bi_nones < MaxBitNones
    /\ LET r == BitIndex_next(Unwrap(bi), overflow_checks)
       IN  IF r.res # "Ok"
           THEN bi_outcome' = "panic" /\ UNCHANGED <<bi, bi_out, bi_nones>>
           ELSE /\ bi' = Some(r.v.it)
                /\ bi_outcome' = bi_outcome
                /\ IF r.v.item = None
                   THEN bi_nones' = bi_nones + 1 /\ bi_out' = bi_out
                   ELSE bi_nones' = bi_nones /\ bi_out' = Append(bi_out, Unwrap(r.v.item))
    /\ UNCHANGED <<overflow_checks, bi_row, decVars, imgVars>>

NextBits ==
    \/ \E bytes \in Rows, nbits \in NBits, size \in 0 .. MaxSize :
            BitIndexCreate(bytes, nbits, size)
    \/ BitIndexNext

SpecBits == InitBits /\ [][NextBits]_vars

(***************************************************************************)
(* The claims.  The fields of the input are read off the buffer itself.    *)
(***************************************************************************)
HasMagic == Len(bmp_data) >= 2 /\ <<bmp_data[1], bmp_data[2]>> = <<66, 77>>
HasHeaders == Len(bmp_data) >= 54
InHeaderSize == u32_from_slice(bmp_data, 14)
InWidth == i32_from_slice(bmp_data, 18)
InHeight == i32_from_slice(bmp_data, 22)
InBpp == u16_from_slice(bmp_data, 28)
InCompression == u32_from_slice(bmp_data, 30)
InColors == u32_from_slice(bmp_data, 46)
InPixelOffset == u32_from_slice(bmp_data, 10)
HeaderErrors ==
    {"UnsupportedHeader", "UnsupportedBmpVersion", "UnsupportedBitsPerPixel",
     "UnsupportedCompressionType"}
AfterValidation == pc \in {"read_color_palette", "read_data", "build", "done"}

\* C1: decode_image ends with an Image or one of the five typed errors, and
\* never with a fatal bounds failure, whatever the buffer is.
C1_NeverPanics == pc = "done" => outcome \in {"Ok", "WrongMagicNumbers"} \cup HeaderErrors

\* C2: for a buffer of at least 54 bytes with the magic, the validation of the
\* format header reports the error of the first failing check, in the order
\* header size, version, bits per pixel, compression (a compression type the
\* code names: RLE-8, RLE-4, bitfields), and no error when none fails.
C2_Expected ==
    IF InHeaderSize \notin {12, 40, 108, 124} THEN "UnsupportedHeader"
    ELSE IF InHeaderSize = 12 \/ (InHeaderSize = 40 /\ InCompression = 3)
    THEN "UnsupportedBmpVersion"
    ELSE IF InBpp \notin {1, 4, 8, 24} THEN "UnsupportedBitsPerPixel"
    ELSE IF InCompression \in {1, 2, 3} THEN "UnsupportedCompressionType"
    ELSE "Ok"

C3_NonzeroCompressionRejected ==
    ( /\ HasMagic /\ HasHeaders /\ AfterValidation
      /\ InHeaderSize \in {40, 108, 124}
      /\ ~(InHeaderSize = 40 /\ InCompression = 3)
      /\ InBpp \in {1, 4, 8, 24}
      /\ InCompression # 0 )
        => (pc = "done" /\ outcome = "UnsupportedCompressionType")

\* C4: a buffer whose first two bytes are not the magic fails with
\* WrongMagicNumbers whatever follows them, and no later stage runs on it.
C4_WrongMagic ==
    (Len(bmp_data) >= 2 /\ ~HasMagic) =>
        \/ pc = "read_bmp_id" /\ outcome = "running"
        \/ /\ pc = "done" /\ outcome = "WrongMagicNumbers"
           /\ header = None /\ dib_header = None /\ image = None

\* a two-byte buffer whose first byte alone is right
C4_Witness ==
    /\ Len(bmp_data) = 2 /\ bmp_data[1] = 66 /\ bmp_data[2] # 77
    /\ pc = "done" /\ outcome = "WrongMagicNumbers"

\* C5: every Image a decode returns has data.length = width * height.
C5_DataLength ==
    image # None =>
        Len(Unwrap(image).data) = Unwrap(image).width * Unwrap(image).height

\* C6: on an Image built by Image::new(w, h) with w, h > 0, after any sequence
\* of set_pixel calls with coordinates in range, get_pixel(x, y) returns the
\* value of the last set_pixel at (x, y), or black if there was none, for every
\* (x, y) in range; width, height and the number of pixels do not change.
C6_GetAfterSet ==
    (img # None /\ in_range /\ Unwrap(img).width > 0 /\ Unwrap(img).height > 0) =>
        /\ img_outcome = "ok"
        /\ DOMAIN shadow = (0 .. Unwrap(img).width - 1) \X (0 .. Unwrap(img).height - 1)
        /\ Len(Unwrap(img).data) = Unwrap(img).width * Unwrap(img).height
        /\ \A c \in DOMAIN shadow :
                get_pixel(Unwrap(img), c[1], c[2], overflow_checks) = Ok(shadow[c])

\* a 2x2 image with (1,0) and (0,1) set to a color, the two others black
C6_Witness ==
    /\ img # None /\ in_range
    /\ Unwrap(img).width = 2 /\ Unwrap(img).height = 2
    /\ get_pixel(Unwrap(img), 1, 0, overflow_checks) = Ok(px(1, 2, 3))
    /\ get_pixel(Unwrap(img), 0, 1, overflow_checks) = Ok(px(1, 2, 3))
    /\ get_pixel(Unwrap(img), 0, 0, overflow_checks) = Ok(BLACK)
    /\ get_pixel(Unwrap(img), 1, 1, overflow_checks) = Ok(BLACK)

\* C7: the iterator of coordinates() on a w x h image yields the w*h pairs of
\* [0,w) x [0,h) in row-major order from (0,0), x first, and then only None;
\* with w = 0 or h = 0 it yields no pair.
C7_Coordinates ==
    coords # None =>
        LET w == Unwrap(img).width
            h == Unwrap(img).height
        IN  /\ Len(yielded) <= w * h
            /\ \A k \in 1 .. Len(yielded) :
                    yielded[k] = <<(k - 1) % w, (k - 1) \div w>>
            /\ nones > 0 => Len(yielded) = w * h

\* a 2x2 image iterated to the end and twice past it
C7_Witness ==
    /\ coords # None /\ nones = MaxNones
    /\ yielded = << <<0, 0>>, <<1, 0>>, <<0, 1>>, <<1, 1>> >>

\* the k-th nbits-wide field of a row, most significant bit first
Field(bytes, nbits, k) ==
    (bytes[((k * nbits) \div 8) + 1] \div (2 ^ ((8 - nbits) - ((k * nbits) % 8))))
        % (2 ^ nbits)

\* C8: for nbits in {1,4,8} the BitIndex iterator over a row B with count size
\* yields the first min(size, 8*len(B)/nbits) fields of B, most significant
\* bit first, each below 2^nbits, and then only None.
C8_BitIndex ==
    (bi_row # None /\ Unwrap(bi_row).nbits \in {1, 4, 8}) =>
        LET B == Unwrap(bi_row).bytes
            nbits == Unwrap(bi_row).nbits
            n == Min(Unwrap(bi_row).size, (8 * Len(B)) \div nbits)
        IN  /\ bi_outcome = "ok"
            /\ Len(bi_out) <= n
            /\ \A k \in 0 .. Len(bi_out) - 1 :
                    /\ bi_out[k + 1] = Field(B, nbits, k)
                    /\ bi_out[k + 1] \in 0 .. (2 ^ nbits) - 1
            /\ bi_nones > 0 => Len(bi_out) = n

\* the byte 0b10110100 with nbits = 4 and size = 2 yields 11, 4 and then None
C8_Witness ==
    /\ bi_row = Some([bytes |-> <<180>>, nbits |-> 4, size |-> 2])
    /\ bi_out = <<11, 4>>
    /\ bi_nones = MaxBitNones

\* the bytes of file row r of an indexed image stored at the 4-byte stride
FileRow(r) ==
    Slice(bmp_data, InPixelOffset + r * Stride(InWidth, InBpp),
          InPixelOffset + r * Stride(InWidth, InBpp) + RowBytes(InWidth, InBpp))

\* the palette entry i as stored in the buffer: blue, green, red, reserved
StoredColor(i) ==
    [r |-> Byte(bmp_data, 14 + InHeaderSize + 4 * i + 2),
     g |-> Byte(bmp_data, 14 + InHeaderSize + 4 * i + 1),
     b |-> Byte(bmp_data, 14 + InHeaderSize + 4 * i)]

PaletteSize == IF InColors # 0 THEN InColors ELSE 2 ^ InBpp

WellFormedIndexed ==
    /\ HasMagic /\ HasHeaders
    /\ InHeaderSize \in {40, 108, 124} /\ InCompression = 0
    /\ InBpp \in {1, 4, 8}
    /\ InWidth >= 0 /\ InHeight >= 0
    /\ 14 + InHeaderSize + 4 * PaletteSize <= InPixelOffset
    /\ InPixelOffset + InHeight * Stride(InWidth, InBpp) <= Len(bmp_data)
    /\ \A r \in 0 .. InHeight - 1, x \in 0 .. InWidth - 1 :
            Field(FileRow(r), InBpp, x) < PaletteSize

\* C9: a well-formed indexed image of width w and height h decodes to w*h
\* pixels, data[r*w + x] being the palette entry selected by the x-th index of
\* file row r.
C9_IndexedDecode ==
    (WellFormedIndexed /\ pc = "done") =>
        /\ outcome = "Ok"
        /\ Len(data) = InWidth * InHeight
        /\ \A r \in 0 .. InHeight - 1, x \in 0 .. InWidth - 1 :
                data[r * InWidth + x + 1] = StoredColor(Field(FileRow(r), InBpp, x))

\* the last byte read_pixels needs is the red byte of the last pixel
LongEnough ==
    \/ AbsU32(InWidth) * AbsU32(InHeight) = 0
    \/ InPixelOffset + 4 * AbsU32(InWidth) * AbsU32(InHeight) - 1 <= Len(bmp_data)

\* C10: on the direct-color path, with a buffer long enough, decode produces
\* w*h pixels, the pixel at flat position k being (r, g, b) = the bytes at
\* off+4k+2, off+4k+1, off+4k; the byte at off+4k+3 is never read; a 1x1 image
\* decodes get_pixel(0,0) to the red, green and blue of its one slot.
C10_DirectColor ==
    ( /\ HasMagic /\ HasHeaders /\ dib_header # None /\ color_palette = None
      /\ InBpp = 24 /\ InColors = 0
      /\ pc \in {"build", "done"}
      /\ LongEnough ) =>
        LET w == AbsU32(InWidth)
            h == AbsU32(InHeight)
            off == InPixelOffset
            stored(k) == [r |-> Byte(bmp_data, off + 4 * k + 2),
                          g |-> Byte(bmp_data, off + 4 * k + 1),
                          b |-> Byte(bmp_data, off + 4 * k)]
        IN  /\ outcome \in {"running", "Ok"}
            /\ Len(data) = w * h
            /\ \A k \in 0 .. w * h - 1 :
                    /\ data[k + 1] = stored(k)
                    /\ off + 4 * k + 3 \notin read_pixels_touched(w, h, off)
            /\ pc = "done" =>
                    /\ image # None
                    /\ Unwrap(image).data = data
                    /\ Unwrap(image).width = w /\ Unwrap(image).height = h
                    /\ (w = 1 /\ h = 1) =>
                            get_pixel(Unwrap(image), 0, 0, overflow_checks) = Ok(stored(0))

\* a 2x2 image whose buffer ends with the red byte of its last pixel
C10_Witness ==
    /\ pc = "done" /\ outcome = "Ok" /\ color_palette = None
    /\ InWidth = 2 /\ InHeight = 2
    /\ Len(bmp_data) = InPixelOffset + 15
    /\ get_pixel(Unwrap(image), 1, 0, overflow_checks)
            = Ok([r |-> Byte(bmp_data, InPixelOffset + 14),
                  g |-> Byte(bmp_data, InPixelOffset + 13),
                  b |-> Byte(bmp_data, InPixelOffset + 12)])

\* every row read_indexes slices lies within the buffer
RowsInBuffer ==
    LET bpr == bytes_per_row(AbsU32(InWidth), InBpp)
    IN  \A y \in 0 .. AbsU32(InHeight) - 1 :
            SliceOk(bmp_data, InPixelOffset + (bpr + row_padding(bpr)) * y,
                    InPixelOffset + (bpr + row_padding(bpr)) * y + bpr)

\* C11: on the indexed path every index the BitIndex iterator produces is
\* below the size of the palette that was read, so no palette lookup is out
\* of bounds: with a bit depth of 1, 4 or 8 and every row within the buffer,
\* read_indexes completes and decode returns an Image, whatever the declared
\* color count is.
C11_IndexInBounds ==
    ( /\ dib_header # None /\ color_palette # None
      /\ InBpp \in {1, 4, 8}
      /\ RowsInBuffer
      /\ pc = "done" ) =>
        /\ outcome = "Ok"
        /\ \A k \in 1 .. Len(data) : \E i \in 1 .. Len(Unwrap(color_palette)) :
                data[k] = Unwrap(color_palette)[i]

\* C12: for a header that passed validation the pixel path follows the bit
\* depth alone: the direct-color path (no palette) exactly when bits-per-pixel
\* is 24, the indexed path exactly when it is 1, 4 or 8, so read_indexes hands
\* bit_index an nbits in {1,4,8}, whatever the declared color count is.
C12_PathByBitDepth ==
    (dib_header # None /\ pc \in {"read_data", "build"}) =>
        /\ (color_palette = None) <=> (Unwrap(dib_header).bits_per_pixel = 24)
        /\ (color_palette # None) <=> (Unwrap(dib_header).bits_per_pixel \in {1, 4, 8})

====
